---- MODULE Spec2Model ----
(***************************************************************************)
(* A model of src/app.py: the text-to-frequency pipeline of the Streamlit  *)
(* word-frequency dashboard (fetch_web_content, process_text, the chart    *)
(* adapters and main).                                                     *)
(*                                                                         *)
(* Strings are sequences of Unicode code points.  A token, a term and a    *)
(* text are all such sequences.  A DataFrame with the columns 词汇 and     *)
(* 频率 is a sequence of records [word |-> token, freq |-> count].         *)
(***************************************************************************)
EXTENDS Integers, Sequences, FiniteSets

\* ------------------------------------------------------------------ bounds

\* The longest token sequence the segmenter is made to return.
MaxWords == 3
\* The largest value of the min_freq slider that is explored (the slider
\* itself runs to 50).
MaxMinFreq == 2
\* The largest value of the top_n slider that is explored (the slider itself
\* runs to 100).
MaxTopN == 11
\* The longest frequency table handed to the chart stage in SpecView.
MaxRows == 11
\* The longest raw text handed to the cleaning rule in SpecClean.
MaxRawLen == 5

\* ------------------------------------------------------- program constants

\* st.sidebar.slider("显示词汇数量", min_value=10, ...)
TopNMin == 10
\* create_radar_chart(df, ..., min(top_n, 10))
RadarCap == 10
\* st.sidebar.slider("过滤低频词（最小频率）", min_value=1, ...)
MinFreqMin == 1
\* chinese_pattern = re.compile(r'[一-龥]')
CjkFirst == 19968
CjkLast == 40869
\* len(word) >= 2
MinWordLen == 2

VARIABLES
    pc,             \* position of the run of main()
    fetch_result,   \* what requests.get / BeautifulSoup did in this run
    raw_text,       \* soup.get_text()
    text,           \* the value fetch_web_content returned
    min_freq,       \* the min_freq slider
    words,          \* jieba.lcut(text)
    filtered_words, \* the list built by the filter loop
    word_freq,      \* Counter(filtered_words), before the threshold
    df,             \* the DataFrame process_text returned
    top_n,          \* the top_n slider
    selected_chart, \* chart_types[selected_chart]
    top_df,         \* df.head(top_n) of main
    chart_data,     \* the (term, count) pairs the chart adapter was given
    messages,       \* st.error / st.warning calls of the run, in order
    outputs,        \* the widgets the run rendered
    prevFail        \* how the last failed run was surfaced, by cause

vars == <<pc, fetch_result, raw_text, text, min_freq, words, filtered_words,
          word_freq, df, top_n, selected_chart, top_df, chart_data, messages,
          outputs, prevFail>>

\* ----------------------------------------------------------------- strings

Min(a, b) == IF a <= b THEN a ELSE b
Max(a, b) == IF a >= b THEN a ELSE b

\* Python's None, as returned by fetch_web_content's except branch.
NoneVal == <<-1>>

\* bool(text) of `if text:`: None and "" are falsy.
Truthy(t) == t # NoneVal /\ t # <<>>

\* The characters str.splitlines() breaks a line at.
LineBreaks == {10, 11, 12, 13, 28, 29, 30, 133, 8232, 8233}

\* The characters str.strip() removes (str.isspace()).
Whitespace ==
    {9, 10, 11, 12, 13, 28, 29, 30, 31, 32, 133, 160, 5760, 8239, 8287, 12288}
    \cup (8192..8202) \cup {8232, 8233}

RECURSIVE SplitLinesFrom(_, _, _, _)
SplitLinesFrom(s, i, cur, acc) ==
    IF i > Len(s) THEN (IF cur # <<>> THEN Append(acc, cur) ELSE acc)
    ELSE IF s[i] = 13 /\ i < Len(s) /\ s[i + 1] = 10
         THEN SplitLinesFrom(s, i + 2, <<>>, Append(acc, cur))
    ELSE IF s[i] \in LineBreaks
         THEN SplitLinesFrom(s, i + 1, <<>>, Append(acc, cur))
    ELSE SplitLinesFrom(s, i + 1, Append(cur, s[i]), acc)

\* text.splitlines(): no final empty line after a trailing line break.
SplitLines(s) == SplitLinesFrom(s, 1, <<>>, <<>>)

RECURSIVE LStrip(_)
LStrip(s) ==
    IF s # <<>> /\ Head(s) \in Whitespace THEN LStrip(Tail(s)) ELSE s

RECURSIVE RStrip(_)
RStrip(s) ==
    IF s # <<>> /\ s[Len(s)] \in Whitespace
    THEN RStrip(SubSeq(s, 1, Len(s) - 1)) ELSE s

\* str.strip()
Strip(s) == RStrip(LStrip(s))

RECURSIVE SplitTwoSpacesFrom(_, _, _, _)
SplitTwoSpacesFrom(s, i, cur, acc) ==
    IF i > Len(s) THEN Append(acc, cur)
    ELSE IF i < Len(s) /\ s[i] = 32 /\ s[i + 1] = 32
         THEN SplitTwoSpacesFrom(s, i + 2, <<>>, Append(acc, cur))
    ELSE SplitTwoSpacesFrom(s, i + 1, Append(cur, s[i]), acc)

\* line.split("  "): the separator is exactly two spaces, found left to right.
SplitTwoSpaces(line) == SplitTwoSpacesFrom(line, 1, <<>>, <<>>)

\* StripChunk with a fault seeded: the fragment is kept as it is.
StripChunkNot(phrase) == phrase

\* phrase.strip() of the chunks generator
StripChunk(phrase) == Strip(phrase)

\* lines  = (line.strip() for line in text.splitlines())
\* chunks = (phrase.strip() for line in lines for phrase in line.split("  "))
RECURSIVE Chunks(_)
Chunks(lines) ==
    IF lines = <<>> THEN <<>>
    ELSE LET phrases == SplitTwoSpaces(Strip(Head(lines)))
         IN  [i \in 1..Len(phrases) |-> StripChunk(phrases[i])]
                 \o Chunks(Tail(lines))

RECURSIVE JoinSpace(_)
JoinSpace(ss) ==
    IF ss = <<>> THEN <<>>
    ELSE IF Len(ss) = 1 THEN Head(ss)
    ELSE Head(ss) \o <<32>> \o JoinSpace(Tail(ss))

NonEmpty(s) == s # <<>>

\* ' '.join(chunk for chunk in chunks if chunk)
Clean(s) == JoinSpace(SelectSeq(Chunks(SplitLines(s)), NonEmpty))

\* ------------------------------------------------------------ process_text

\* stop_words = {'的', '了', ..., '然后'}
stop_words ==
    { <<30340>>, <<20102>>, <<22312>>, <<26159>>, <<21644>>,
      <<26377>>, <<20063>>, <<37117>>, <<36825>>, <<20010>>,
      <<20013>>, <<21040>>, <<20026>>, <<23545>>, <<19982>>,
      <<19978>>, <<25110>>, <<31561>>, <<20110>>, <<20043>>,
      <<32780>>, <<21450>>, <<23601>>, <<20294>>, <<24182>>,
      <<24456>>, <<35201>>, <<20174>>, <<20197>>, <<23558>>,
      <<19981>>, <<25105, 20204>>, <<20182, 20204>>, <<21487, 20197>>,
      <<19968, 20010>>, <<27809, 26377>>, <<19981, 26159>>,
      <<36825, 20010>>, <<23601, 26159>>, <<36825, 26679>>,
      <<22240, 20026>>, <<25152, 20197>>, <<22914, 26524>>,
      <<34429, 28982>>, <<20294, 26159>>, <<32780, 19988>>,
      <<28982, 21518>> }

\* chinese_pattern.search(word): some character lies in U+4E00..U+9FA5.
chinese_pattern(word) ==
    \E i \in 1..Len(word) : word[i] >= CjkFirst /\ word[i] <= CjkLast

\* KeepWord with a fault seeded: the length test is dropped.
KeepWordAnyLength(word) ==
    word \notin stop_words /\ chinese_pattern(word)

\* The condition of the filter loop.
KeepWord(word) ==
    /\ Len(word) >= MinWordLen
    /\ word \notin stop_words
    /\ chinese_pattern(word)

RECURSIVE FilterLoop(_, _)
FilterLoop(ws, acc) ==
    IF ws = <<>> THEN acc
    ELSE FilterLoop(Tail(ws),
                    IF KeepWord(Head(ws)) THEN Append(acc, Head(ws)) ELSE acc)

\* for word in words: if ...: filtered_words.append(word)
FilterWords(ws) == FilterLoop(ws, <<>>)

\* CounterAdd with a fault seeded: a repeated word does not raise its count.
CounterAddOnce(items, w) ==
    IF \E i \in 1..Len(items) : items[i].word = w
    THEN items
    ELSE Append(items, [word |-> w, freq |-> 1])

\* One update of a Counter: an insertion-ordered dict, as its item list.
CounterAdd(items, w) ==
    IF \E i \in 1..Len(items) : items[i].word = w
    THEN [i \in 1..Len(items) |->
            IF items[i].word = w
            THEN [word |-> w, freq |-> items[i].freq + 1]
            ELSE items[i]]
    ELSE Append(items, [word |-> w, freq |-> 1])

RECURSIVE CounterLoop(_, _)
CounterLoop(ws, items) ==
    IF ws = <<>> THEN items
    ELSE CounterLoop(Tail(ws), CounterAdd(items, Head(ws)))

\* Counter(filtered_words)
Counter(ws) == CounterLoop(ws, <<>>)

\* Threshold with a fault seeded: freq > min_freq.
ThresholdStrict(items, mf) ==
    SelectSeq(items, LAMBDA e : e.freq > mf)

\* {word: freq for word, freq in word_freq.items() if freq >= min_freq}
Threshold(items, mf) ==
    SelectSeq(items, LAMBDA e : e.freq >= mf)

Reverse(s) == [i \in 1..Len(s) |-> s[Len(s) + 1 - i]]

Permutations(n) ==
    {p \in [1..n -> 1..n] : \A i, j \in 1..n : i # j => p[i] # p[j]}

\* ArgsortOutcomes with a fault seeded: the keys are left as they are.
ArgsortIdentity(keys) == {[i \in 1..Len(keys) |-> i]}

\* numpy's argsort(kind='quicksort'), the default kind of sort_values: an
\* index order that sorts the keys ascending.  quicksort is not stable, so
\* every order of equal keys is an outcome.
ArgsortOutcomes(keys) ==
    {p \in Permutations(Len(keys)) :
        \A i \in 1..(Len(keys) - 1) : keys[p[i]] <= keys[p[i + 1]]}

\* pandas' descending sort of one column: the rows are reversed, argsorted
\* ascending, and the resulting order is reversed again.
SortByIndexer(items, p) ==
    LET n == Len(items)
        indexer == Reverse([i \in 1..n |-> n + 1 - p[i]])
    IN  [i \in 1..n |-> items[indexer[i]]]

\* df.sort_values('频率', ascending=False).reset_index(drop=True)
SortValuesOutcomes(items) ==
    {SortByIndexer(items, p) :
        p \in ArgsortOutcomes([i \in 1..Len(items) |-> Reverse(items)[i].freq])}

\* ------------------------------------------------------------- ranked view

\* DfHead with a fault seeded: one row too many.
DfHeadOneMore(d, n) == SubSeq(d, 1, Min(n + 1, Len(d)))

\* df.head(n): the first n rows; for a negative n, all but the last -n.
DfHead(d, n) ==
    IF n >= 0 THEN SubSeq(d, 1, Min(n, Len(d)))
    ELSE SubSeq(d, 1, Max(0, Len(d) + n))

\* zip(top_df['词汇'], top_df['频率'])
ZipColumns(d) ==
    LET xs == [i \in 1..Len(d) |-> d[i].word]
        ys == [i \in 1..Len(d) |-> d[i].freq]
    IN  [i \in 1..Min(Len(xs), Len(ys)) |-> [word |-> xs[i], freq |-> ys[i]]]

\* One insertion into a dict: a known key keeps its place and takes the value.
DictSet(items, e) ==
    IF \E i \in 1..Len(items) : items[i].word = e.word
    THEN [i \in 1..Len(items) |->
            IF items[i].word = e.word THEN e ELSE items[i]]
    ELSE Append(items, e)

RECURSIVE DictLoop(_, _)
DictLoop(pairs, items) ==
    IF pairs = <<>> THEN items
    ELSE DictLoop(Tail(pairs), DictSet(items, Head(pairs)))

\* dict(zip(top_df['词汇'], top_df['频率'])), as its item list
DictOfPairs(pairs) == DictLoop(pairs, <<>>)

\* create_wordcloud: data_pair=list(word_freq_dict.items())
create_wordcloud(word_freq_dict) == word_freq_dict

\* create_bar_chart: add_xaxis(top_df['词汇']), add_yaxis(top_df['频率'])
create_bar_chart(d, n) == ZipColumns(DfHead(d, n))

\* create_pie_chart: data_pair=list(zip(top_df['词汇'], top_df['频率']))
create_pie_chart(d, n) == ZipColumns(DfHead(d, n))

\* create_line_chart
create_line_chart(d, n) == ZipColumns(DfHead(d, n))

\* create_scatter_chart
create_scatter_chart(d, n) == ZipColumns(DfHead(d, n))

\* create_funnel_chart
create_funnel_chart(d, n) == ZipColumns(DfHead(d, n))

\* create_radar_chart: the schema names and the data row of top_df
create_radar_chart(d, n) == ZipColumns(DfHead(d, n))

\* RadarTopN with a fault seeded: the radar chart is given top_n itself.
RadarTopNUncapped(n) == n

\* main's argument to create_radar_chart: min(top_n, 10)
RadarTopN(n) == Min(n, RadarCap)

\* -------------------------------------------------------------- the inputs

\* The tokens the segmenter is made to produce: 猫, 猫猫, 我们 (a stopword),
\* ab and a猫.
TokenUniverse ==
    { <<29483>>, <<29483, 29483>>, <<25105, 20204>>, <<97, 98>>,
      <<97, 29483>> }

WordSeqs == UNION {[1..n -> TokenUniverse] : n \in 0..MaxWords}

RECURSIVE Flatten(_)
Flatten(ws) == IF ws = <<>> THEN <<>> ELSE Head(ws) \o Flatten(Tail(ws))

\* The page texts soup.get_text() is made to return.
RawTexts == {Flatten(ws) : ws \in WordSeqs}

\* The page texts of an error page: at most one token long.
ErrorBodies == {Flatten(ws) : ws \in {w \in WordSeqs : Len(w) <= 1}}

IsPrefix(p, s) == Len(p) <= Len(s) /\ SubSeq(s, 1, Len(p)) = p

\* jieba.lcut(text): a split of the text into consecutive tokens.  Which
\* split is the segmenter's choice.
RECURSIVE Segmentations(_)
Segmentations(t) ==
    IF t = <<>> THEN {<<>>}
    ELSE UNION { {<<tok>> \o rest :
                    rest \in Segmentations(SubSeq(t, Len(tok) + 1, Len(t)))} :
                 tok \in {k \in TokenUniverse : IsPrefix(k, t)} }

\* The exceptions the try block of fetch_web_content can raise: from
\* requests.get (connection, timeout) and from BeautifulSoup (markup).
Exceptions == {"ConnectionError", "Timeout", "ParserRejectedMarkup"}

\* The failure a raised exception stands for.
CauseOf(e) == IF e = "ParserRejectedMarkup" THEN "extraction" ELSE "fetch"

ChartKinds ==
    {"wordcloud", "bar", "pie", "line", "scatter", "funnel", "radar"}

AllOutputs ==
    {"preview", "table", "metrics", "chart", "csv_download", "text_download"}

Msg(level, msg, detail) == [level |-> level, msg |-> msg, detail |-> detail]

NoFail == [cause |-> "none", ret |-> NoneVal, report |-> <<>>]

\* What a failed run hands to its caller: fetch_web_content's return value
\* and the notices of the run, by level and message.
Surfaced ==
    [ret |-> text,
     report |-> [i \in 1..Len(messages) |->
                    <<messages[i].level, messages[i].msg>>]]

\* ------------------------------------------------------------------- state

RunStart ==
    /\ pc = "idle"
    /\ fetch_result = "none"
    /\ raw_text = <<>>
    /\ text = NoneVal
    /\ min_freq = MinFreqMin
    /\ words = <<>>
    /\ filtered_words = <<>>
    /\ word_freq = <<>>
    /\ df = <<>>
    /\ top_n = TopNMin
    /\ selected_chart = "none"
    /\ top_df = <<>>
    /\ chart_data = <<>>
    /\ messages = <<>>
    /\ outputs = {}

Init == RunStart /\ prevFail = NoFail

\* main, line 300 and 383 both false: the button was not pressed.
NoClick ==
    /\ pc = "idle"
    /\ pc' = "done"
    /\ UNCHANGED <<fetch_result, raw_text, text, min_freq, words,
                   filtered_words, word_freq, df, top_n, selected_chart,
                   top_df, chart_data, messages, outputs, prevFail>>

\* main, line 383: the button was pressed with an empty URL.
NoUrl ==
    /\ pc = "idle"
    /\ pc' = "done"
    /\ messages' = Append(messages, Msg("warning", "enter_url", ""))
    /\ UNCHANGED <<fetch_result, raw_text, text, min_freq, words,
                   filtered_words, word_freq, df, top_n, selected_chart,
                   top_df, chart_data, outputs, prevFail>>

\* fetch_web_content, lines 30-47: requests.get returned a response with the
\* given status, and its text was extracted and cleaned.  The status is not
\* looked at.
FetchReturns(raw, status) ==
    /\ pc = "idle"
    /\ pc' = "fetched"
    /\ fetch_result' = status
    /\ raw_text' = raw
    /\ text' = Clean(raw)
    /\ UNCHANGED <<min_freq, words, filtered_words, word_freq, df, top_n,
                   selected_chart, top_df, chart_data, messages, outputs,
                   prevFail>>

FetchOK == \E raw \in RawTexts : FetchReturns(raw, "ok")

\* The server answered with an HTTP error status (4xx, 5xx) and a body.
FetchHTTPError == \E raw \in ErrorBodies : FetchReturns(raw, "http_error")

\* fetch_web_content, lines 48-50: an exception in the try block.
FetchRaises ==
    \E e \in Exceptions :
        /\ pc = "idle"
        /\ pc' = "fetched"
        /\ fetch_result' = e
        /\ text' = NoneVal
        /\ messages' = Append(messages, Msg("error", "fetch_failed", e))
        /\ UNCHANGED <<raw_text, min_freq, words, filtered_words, word_freq,
                       df, top_n, selected_chart, top_df, chart_data, outputs,
                       prevFail>>

\* main, lines 305 and 381-382: `if text:` is false.
MainNoText ==
    /\ pc = "fetched"
    /\ ~Truthy(text)
    /\ pc' = "done"
    /\ messages' = Append(messages, Msg("error", "content_unavailable", ""))
    /\ UNCHANGED <<fetch_result, raw_text, text, min_freq, words,
                   filtered_words, word_freq, df, top_n, selected_chart,
                   top_df, chart_data, outputs, prevFail>>

\* main, lines 305-311, and process_text: the preview, then the table.
ProcessText ==
    /\ pc = "fetched"
    /\ Truthy(text)
    /\ \E mf \in MinFreqMin..MaxMinFreq, ws \in Segmentations(text) :
         LET fw == FilterWords(ws)
             wf == Counter(fw)
         IN  /\ min_freq' = mf
             /\ words' = ws
             /\ filtered_words' = fw
             /\ word_freq' = wf
             /\ df' \in SortValuesOutcomes(Threshold(wf, mf))
    /\ outputs' = outputs \cup {"preview"}
    /\ pc' = "processed"
    /\ UNCHANGED <<fetch_result, raw_text, text, top_n, selected_chart,
                   top_df, chart_data, messages, prevFail>>

\* main, lines 313 and 379-380: df.empty.
WarnEmpty ==
    /\ pc = "processed"
    /\ df = <<>>
    /\ pc' = "done"
    /\ messages' = Append(messages, Msg("warning", "no_sufficient_data", ""))
    /\ UNCHANGED <<fetch_result, raw_text, text, min_freq, words,
                   filtered_words, word_freq, df, top_n, selected_chart,
                   top_df, chart_data, outputs, prevFail>>

\* main, lines 313-378 with the given chart branch taken: the table and the
\* metrics, top_df and word_freq_dict, the chart, the two downloads.
Render(kind, n, data) ==
    /\ pc = "processed"
    /\ df # <<>>
    /\ pc' = "done"
    /\ top_n' = n
    /\ selected_chart' = kind
    /\ top_df' = DfHead(df, n)
    /\ chart_data' = data
    /\ outputs' = outputs \cup {"table", "metrics", "chart", "csv_download",
                                "text_download"}
    /\ UNCHANGED <<fetch_result, raw_text, text, min_freq, words,
                   filtered_words, word_freq, df, messages, prevFail>>

RenderWordcloud ==
    \E n \in TopNMin..MaxTopN :
        Render("wordcloud", n,
               create_wordcloud(DictOfPairs(ZipColumns(DfHead(df, n)))))

RenderBar ==
    \E n \in TopNMin..MaxTopN : Render("bar", n, create_bar_chart(df, n))

RenderPie ==
    \E n \in TopNMin..MaxTopN : Render("pie", n, create_pie_chart(df, n))

RenderLine ==
    \E n \in TopNMin..MaxTopN : Render("line", n, create_line_chart(df, n))

RenderScatter ==
    \E n \in TopNMin..MaxTopN :
        Render("scatter", n, create_scatter_chart(df, n))

RenderFunnel ==
    \E n \in TopNMin..MaxTopN :
        Render("funnel", n, create_funnel_chart(df, n))

RenderRadar ==
    \E n \in TopNMin..MaxTopN :
        Render("radar", n, create_radar_chart(df, RadarTopN(n)))

\* The next interaction reruns main from the top.  What is kept is only the
\* record of how the last failed run was surfaced.
NewRun ==
    /\ pc = "done"
    /\ pc' = "idle"
    /\ fetch_result' = "none"
    /\ raw_text' = <<>>
    /\ text' = NoneVal
    /\ min_freq' = MinFreqMin
    /\ words' = <<>>
    /\ filtered_words' = <<>>
    /\ word_freq' = <<>>
    /\ df' = <<>>
    /\ top_n' = TopNMin
    /\ selected_chart' = "none"
    /\ top_df' = <<>>
    /\ chart_data' = <<>>
    /\ messages' = <<>>
    /\ outputs' = {}
    /\ prevFail' =
         IF fetch_result \in Exceptions
         THEN [cause |-> CauseOf(fetch_result), ret |-> Surfaced.ret,
               report |-> Surfaced.report]
         ELSE prevFail

Next ==
    \/ NoClick
    \/ NoUrl
    \/ FetchOK
    \/ FetchHTTPError
    \/ FetchRaises
    \/ MainNoText
    \/ ProcessText
    \/ WarnEmpty
    \/ RenderWordcloud
    \/ RenderBar
    \/ RenderPie
    \/ RenderLine
    \/ RenderScatter
    \/ RenderFunnel
    \/ RenderRadar
    \/ NewRun

Spec == Init /\ [][Next]_vars

\* ------------------------------------------------ the chart stage alone

\* The k-th term of a long table: a two-character CJK word.
ViewTerm(k) == <<CjkFirst + k, CjkFirst + k>>

\* A table of k rows as process_text returns it: distinct terms, the first
\* j rows with count 2 and the others with count 1.
ViewTable(k, j) ==
    [i \in 1..k |-> [word |-> ViewTerm(i), freq |-> IF i <= j THEN 2 ELSE 1]]

ViewTables == UNION {{ViewTable(k, j) : j \in 0..k} : k \in 1..MaxRows}

\* The token stream a table was counted from: each term, count times.
RECURSIVE Expand(_)
Expand(d) ==
    IF d = <<>> THEN <<>>
    ELSE [i \in 1..Head(d).freq |-> Head(d).word] \o Expand(Tail(d))

\* main after process_text has returned a long table (line 311).
InitView ==
    /\ pc = "processed"
    /\ fetch_result = "ok"
    /\ df \in ViewTables
    /\ words = Expand(df)
    /\ filtered_words = words
    /\ word_freq = df
    /\ raw_text = Flatten(words)
    /\ text = raw_text
    /\ min_freq = MinFreqMin
    /\ top_n = TopNMin
    /\ selected_chart = "none"
    /\ top_df = <<>>
    /\ chart_data = <<>>
    /\ messages = <<>>
    /\ outputs = {"preview"}
    /\ prevFail = NoFail

NextView ==
    \/ RenderWordcloud
    \/ RenderBar
    \/ RenderPie
    \/ RenderLine
    \/ RenderScatter
    \/ RenderFunnel
    \/ RenderRadar

SpecView == InitView /\ [][NextView]_vars

\* ---------------------------------------------- the cleaning rule alone

\* Tab, line feed, carriage return, space and the letter a.
CleanAlphabet == {9, 10, 13, 32, 97}

RawStrings == UNION {[1..n -> CleanAlphabet] : n \in 0..MaxRawLen}

FetchRawString == \E raw \in RawStrings : FetchReturns(raw, "ok")

NextClean == FetchRawString

SpecClean == Init /\ [][NextClean]_vars

\* ------------------------------------------------------------ the claims

\* process_text has been called in this run.
Processed == "preview" \in outputs

\* The number of places of seq that hold x.
Occurrences(x, seq) == Cardinality({i \in 1..Len(seq) : seq[i] = x})

\* The first place of seq that holds x.
FirstOccurrence(x, seq) ==
    CHOOSE i \in 1..Len(seq) :
        seq[i] = x /\ \A j \in 1..(i - 1) : seq[j] # x

NonIncreasing(d) ==
    \A i \in 1..(Len(d) - 1) : d[i].freq >= d[i + 1].freq

\* The rows of a are the rows of b, each as often.
SameRows(a, b) ==
    /\ Len(a) = Len(b)
    /\ \A i \in 1..Len(a) : Occurrences(a[i], a) = Occurrences(a[i], b)

C2_FilterKeepsExactlyValid ==
    Processed =>
        filtered_words =
            SelectSeq(words,
                      LAMBDA w : /\ Len(w) >= 2
                                 /\ w \notin stop_words
                                 /\ \E i \in 1..Len(w) :
                                        w[i] \in 19968..40869)

\* C2, reached: of three tokens one was dropped and a repeated one kept twice.
C2_Witness ==
    /\ Processed
    /\ Len(words) = 3
    /\ Len(filtered_words) = 2
    /\ filtered_words[1] = filtered_words[2]

RECURSIVE SumFreq(_)
SumFreq(items) ==
    IF items = <<>> THEN 0 ELSE Head(items).freq + SumFreq(Tail(items))

\* C3: before the threshold, the counts of all distinct terms add up to the
\* number of filtered tokens.
C3_CountsSumToTokens ==
    Processed => SumFreq(word_freq) = Len(filtered_words)

\* C3, reached: two distinct terms were counted, one of them twice.
C3_Witness ==
    /\ Processed
    /\ Len(word_freq) = 2
    /\ Len(filtered_words) = 3

\* C4: the table has exactly one row for each distinct term that occurs at
\* least min_freq times, carrying its number of occurrences, and no row for
\* any other term.
C4_ThresholdExact ==
    Processed =>
        \A t \in {filtered_words[i] : i \in 1..Len(filtered_words)}
                 \cup {df[i].word : i \in 1..Len(df)} :
            LET n == Occurrences(t, filtered_words)
                rows == {i \in 1..Len(df) : df[i].word = t}
            IN  IF n >= min_freq /\ n >= 1
                THEN /\ Cardinality(rows) = 1
                     /\ \A i \in rows : df[i].freq = n
                ELSE rows = {}

\* C4, reached: with min_freq 2 one term survived and another was dropped.
C4_Witness ==
    /\ Processed
    /\ min_freq = 2
    /\ Len(df) = 1
    /\ Len(word_freq) = 2

\* C5: the ranked view is the first min(top_n, |table|) rows of the table in
\* the table's order, in main and in create_bar_chart, and taking it leaves
\* the table as it was.
C5_RankedViewIsPrefix ==
    [][(pc = "processed" /\ pc' = "done" /\ df # <<>>) =>
          /\ df' = df
          /\ Len(top_df') = Min(top_n', Len(df))
          /\ \A i \in 1..Len(top_df') : top_df'[i] = df[i]
          /\ selected_chart' = "bar" =>
                /\ Len(chart_data') = Min(top_n', Len(df))
                /\ \A i \in 1..Len(chart_data') : chart_data'[i] = df[i]]_vars

\* C5, reached: a table longer than top_n was cut to top_n rows.
C5_Witness ==
    /\ pc = "done"
    /\ selected_chart = "bar"
    /\ Len(df) > top_n
    /\ Len(top_df) = top_n
    /\ Len(chart_data) = top_n

\* The first n rows of the table, as (term, count) pairs.
FirstRows(n) == [i \in 1..Min(n, Len(df)) |-> df[i]]

\* C6, as stated: whichever of the seven charts is selected, its adapter is
\* given the first top_n rows of the table.
C6_AllAdaptersSameRows ==
    (pc = "done" /\ selected_chart \in ChartKinds) =>
        chart_data = FirstRows(top_n)

\* C6, amended: the wordcloud, bar, pie, line, scatter and funnel adapters
\* are given the first top_n rows of the table; the radar adapter is given
\* the first min(top_n, 10) rows.
C6_AdaptersRowsRadarCapped ==
    (pc = "done" /\ selected_chart \in ChartKinds) =>
        IF selected_chart = "radar"
        THEN chart_data = FirstRows(IF top_n <= 10 THEN top_n ELSE 10)
        ELSE chart_data = FirstRows(top_n)

\* C6, reached: the radar chart of a table of more than ten rows with top_n
\* above ten.
C6_Witness ==
    /\ pc = "done"
    /\ selected_chart = "radar"
    /\ top_n > 10
    /\ Len(df) > 10
    /\ Len(chart_data) = 10

\* C7, as stated: a run that failed in extraction is surfaced differently
\* from a run that failed in the fetch.
C7_ExtractionSurfacedDistinctly ==
    (/\ pc = "done"
     /\ fetch_result \in Exceptions
     /\ prevFail.cause # "none"
     /\ prevFail.cause # CauseOf(fetch_result)) =>
        \/ prevFail.ret # Surfaced.ret
        \/ prevFail.report # Surfaced.report

\* C8, as stated: a run whose fetch succeeded and that ends with an empty
\* text, no filtered token or no surviving term has an empty table and
\* reports the "no sufficient data" warning and no error.
C8_EmptyResultIsWarning ==
    (/\ pc = "done"
     /\ fetch_result = "ok"
     /\ (text = <<>> \/ filtered_words = <<>> \/ df = <<>>)) =>
        /\ df = <<>>
        /\ \E i \in 1..Len(messages) :
               messages[i].level = "warning"
                   /\ messages[i].msg = "no_sufficient_data"
        /\ \A i \in 1..Len(messages) : messages[i].level # "error"

\* C9, as stated: after a failed fetch (an exception or an HTTP error
\* status) process_text is not called and nothing is rendered, and a
\* finished run has rendered all of table, chart and downloads or none.
C9_FetchFailureAborts ==
    /\ (fetch_result \in Exceptions \cup {"http_error"}) =>
           (~Processed /\ outputs = {} /\ df = <<>> /\ chart_data = <<>>)
    /\ pc = "done" =>
           LET results == outputs \ {"preview"}
           IN  results = {} \/ results = AllOutputs \ {"preview"}

RECURSIVE RefSplitLines(_, _)
\* The lines of s, split at every line-break character.
RefSplitLines(s, cur) ==
    IF s = <<>> THEN <<cur>>
    ELSE IF Head(s) \in LineBreaks
         THEN <<cur>> \o RefSplitLines(Tail(s), <<>>)
    ELSE RefSplitLines(Tail(s), Append(cur, Head(s)))

RECURSIVE SkipSpaces(_)
SkipSpaces(s) ==
    IF s # <<>> /\ Head(s) = 32 THEN SkipSpaces(Tail(s)) ELSE s

RECURSIVE RefSplitRuns(_, _)
\* The fragments of s between its runs of two or more spaces.
RefSplitRuns(s, cur) ==
    IF s = <<>> THEN <<cur>>
    ELSE IF Len(s) >= 2 /\ s[1] = 32 /\ s[2] = 32
         THEN <<cur>> \o RefSplitRuns(SkipSpaces(s), <<>>)
    ELSE RefSplitRuns(Tail(s), Append(cur, Head(s)))

RECURSIVE RefFragments(_)
RefFragments(lines) ==
    IF lines = <<>> THEN <<>>
    ELSE LET frags == RefSplitRuns(Strip(Head(lines)), <<>>)
         IN  SelectSeq([i \in 1..Len(frags) |-> Strip(frags[i])], NonEmpty)
                 \o RefFragments(Tail(lines))

\* The reference rule: split on line boundaries, strip each line, split it
\* on runs of two or more spaces, strip each fragment, drop the empty ones,
\* join with one space.
RefClean(s) == JoinSpace(RefFragments(RefSplitLines(s, <<>>)))

\* C10: the cleaned text is what the reference rule gives; it neither starts
\* nor ends with whitespace and holds no two consecutive spaces.
C10_CleanMatchesReference ==
    (pc = "fetched" /\ text # NoneVal) =>
        /\ text = RefClean(raw_text)
        /\ text # <<>> =>
               (text[1] \notin Whitespace /\ text[Len(text)] \notin Whitespace)
        /\ \A i \in 1..(Len(text) - 1) : ~(text[i] = 32 /\ text[i + 1] = 32)

\* C10, reached: a run of three spaces was cleaned to one space.
C10_Witness ==
    /\ pc = "fetched"
    /\ raw_text = <<97, 32, 32, 32, 97>>
    /\ text = <<97, 32, 97>>

====
